---- MODULE Spec2Model ----
(***************************************************************************)
(* Model of the exchange request-signing and nonce / timestamp             *)
(* synchronisation subsystem of butterfly-services:                        *)
(*   KrakenApiService, MexcApiService, BaseExchangeService,                *)
(*   ExchangeApiService, ExchangeTimeSyncer and EnvService.                *)
(*                                                                         *)
(* JavaScript runs each handler to completion between two awaits, so one   *)
(* action of the model is the code between two suspension points.          *)
(***************************************************************************)
EXTENDS Integers, Sequences, FiniteSets, TLC

\* ------------------------------------------------------------------ bounds
MaxClock == 1
MaxCalls == 2
MaxConfigCalls == 1
MaxInstances == 2

\* ------------------------------------------------------------------ state
VARIABLES
  now,              \* Date.now(), the local wall clock in milliseconds
  env,              \* process.env: USE_TEST_MODE and NODE_ENV
  config,           \* what EnvService / the credential provider hold
  instanceCount,    \* KrakenApiService.instanceCount (static)
  globalLastNonce,  \* KrakenApiService.globalLastNonce (static)
  initialized,      \* KrakenApiService.initialized (static)
  mexcLastNonce,    \* MexcApiService.lastNonce, per instance
  timeSyncer,       \* BaseExchangeService.timeSyncer, per MEXC instance
  calls,            \* the adapter calls, each at its suspension point
  started,          \* number of adapter calls made so far
  callLimit,        \* number of adapter calls the run makes
  issued,           \* history: the values returned by generateUniqueNonce
  transport,        \* history: the requests handed to axios, in order
  logs,             \* history: the messages given to the log service
  mode,             \* what the last shouldUseTestMode() call alone returned
  syncer,           \* a stand-alone ExchangeTimeSyncer: cachedTimeOffset
  lastInit,         \* history: the latest initFromServer call on syncer
  lastRead,         \* history: the latest reads of syncer
  ticker,           \* the name of the asset the calls are made for
  lastPair,         \* history: the latest createPair call and its result
  signed,           \* history: the direct signing calls and their results
  provided,         \* history: the latest credential-provider call
  readings          \* history: the clock readings of the Kraken nonce code

vars == <<now, env, config, instanceCount, globalLastNonce, initialized,
          mexcLastNonce, timeSyncer, calls, started, callLimit, issued,
          transport, logs, mode, syncer, lastInit, lastRead, ticker,
          lastPair, signed, provided, readings>>

\* the variables no adapter call changes: the asset asked for, and the
\* variables of the operations called on their own
quietVars == <<mode, syncer, lastInit, lastRead, ticker, lastPair, signed,
               provided>>

\* the same with the history of the clock readings, which only the Kraken
\* nonce code extends
aloneVars == <<quietVars, readings>>

Max(a, b) == IF a >= b THEN a ELSE b

CallIds == 1..Max(MaxCalls, MaxConfigCalls)

\* ---------------------------------------------------------------- strings
\* A JavaScript string is a sequence of one-character strings; undefined is
\* a value no string equals.
Undefined == <<"undefined-value">>
EmptyString == <<>>

S_true == <<"t", "r", "u", "e">>
S_TRUE == <<"T", "R", "U", "E">>
S_false == <<"f", "a", "l", "s", "e">>
S_False == <<"F", "a", "l", "s", "e">>
S_yes == <<"y", "e", "s">>
S_no == <<"n", "o">>
S_on == <<"o", "n">>
S_one == <<"1">>
S_zero == <<"0">>
S_production == <<"p", "r", "o", "d", "u", "c", "t", "i", "o", "n">>
S_Production == <<"P", "r", "o", "d", "u", "c", "t", "i", "o", "n">>
S_staging == <<"s", "t", "a", "g", "i", "n", "g">>
S_test == <<"t", "e", "s", "t">>
S_key == <<"k", "e", "y">>
S_secret == <<"c", "2", "V", "j">>
S_blank == <<" ">>

\* String.prototype.toLowerCase, character by character
LowerChar(ch) ==
  CASE ch = "T" -> "t" [] ch = "R" -> "r" [] ch = "U" -> "u" [] ch = "E" -> "e"
    [] ch = "F" -> "f" [] ch = "A" -> "a" [] ch = "L" -> "l" [] ch = "S" -> "s"
    [] ch = "P" -> "p" [] ch = "O" -> "o" [] ch = "N" -> "n" [] ch = "Y" -> "y"
    [] ch = "B" -> "b" [] ch = "C" -> "c" [] ch = "D" -> "d" [] ch = "G" -> "g"
    [] ch = "H" -> "h" [] ch = "M" -> "m" [] ch = "X" -> "x" [] ch = "Z" -> "z"
    [] OTHER -> ch

ToLowerCase(str) == [i \in DOMAIN str |-> LowerChar(str[i])]

IsSpace(ch) == ch \in {" ", "\t", "\n"}

RECURSIVE TrimStart(_)
TrimStart(str) ==
  IF str # <<>> /\ IsSpace(Head(str)) THEN TrimStart(Tail(str)) ELSE str

RECURSIVE TrimEnd(_)
TrimEnd(str) ==
  IF str # <<>> /\ IsSpace(str[Len(str)])
  THEN TrimEnd(SubSeq(str, 1, Len(str) - 1))
  ELSE str

\* String.prototype.trim
Trim(str) == TrimEnd(TrimStart(str))

\* JavaScript truthiness of a string-or-undefined value
Truthy(v) == v # Undefined /\ v # EmptyString

\* ------------------------------------------------------------- EnvService
\* loadFromEnvironment keeps a variable of process.env only when its value is
\* truthy; get() then returns the stored string, or undefined when the key
\* was never set.  No config file is present.
LoadFromEnvironment(value) == IF Truthy(value) THEN value ELSE Undefined

\* JavaScript's three answers of getBoolean
JsTrue == "true"
JsFalse == "false"
JsUndefined == "undefined"

\* EnvService.getBoolean on the value get(key) returned
GetBoolean(value) ==
  IF Truthy(value)
  THEN (IF ToLowerCase(value) = S_true THEN JsTrue ELSE JsFalse)
  ELSE JsUndefined


\* BaseExchangeService.shouldUseTestMode without the environment test
ShouldUseTestMode_flagOnly(useTestMode, nodeEnv) == useTestMode # JsFalse

\* BaseExchangeService.shouldUseTestMode, on getBoolean('app.useTestMode') and
\* get('app.environment'): TRUE is test mode, FALSE is live trading
ShouldUseTestMode(useTestMode, nodeEnv) ==
  IF useTestMode = JsFalse /\ nodeEnv = S_production THEN FALSE ELSE TRUE

\* ------------------------------------------------------ ExchangeApiService
\* The outcome of a synchronous call: a returned value or a thrown Error
Return(v) == [threw |-> FALSE, value |-> v]
Throw(msg) == [threw |-> TRUE, message |-> msg]

\* An Error's message is a sequence of text fragments; includes(marker) is
\* the presence of the marker fragment.
Includes(msg, marker) == \E i \in DOMAIN msg : msg[i] = marker

ApiKeyNotFound(exchange) == <<"API key not found for exchange: ", exchange>>
ApiSecretNotFound(exchange) == <<"API secret not found for exchange: ", exchange>>

\* a provider that refuses a missing value only, and returns an empty one
GetAPIKey_undefinedOnly(source, configured, exchange) ==
  IF configured = Undefined THEN Throw(ApiKeyNotFound(exchange))
  ELSE Return(configured)

\* ExchangeApiService.getAPIKey on the configured value; an injected
\* IExchangeApiService (source "injected") returns its value as it is
GetAPIKey(source, configured, exchange) ==
  IF source = "injected" THEN Return(configured)
  ELSE IF ~Truthy(configured) THEN Throw(ApiKeyNotFound(exchange))
  ELSE Return(configured)

\* ExchangeApiService.getAPISecret
GetAPISecret(source, configured, exchange) ==
  IF source = "injected" THEN Return(configured)
  ELSE IF ~Truthy(configured) THEN Throw(ApiSecretNotFound(exchange))
  ELSE Return(configured)

\* ------------------------------------------------------------------ nonce
\* the nonce is Date.now() alone: two calls in one millisecond collide
GenerateUniqueNonce_clockOnly(last, t) == t

\* the candidate is max(Date.now(), last): the + 1 is lost
GenerateUniqueNonce_noIncrement(last, t) == Max(t, last)

\* the stale counter incremented whatever the clock reads
GenerateUniqueNonce_alwaysIncrement(last, t) == last + 1

\* KrakenApiService.generateUniqueNonce: the value stored in globalLastNonce
\* and returned
\* a generator that steps two past the last nonce
GenerateUniqueNonce_plusTwo(last, t) == Max(t, last + 2)

GenerateUniqueNonce(last, t) == Max(t, last + 1)

\* the constructor re-seeds the counter for every instance
ConstructorNonce_everyInstance(init, last, t) == t

\* the counter is left at its static initialiser 0 by every constructor
ConstructorNonce_keepsZero(init, last, t) == last

\* KrakenApiService constructor: the counter is seeded from the clock by the
\* first instance only
ConstructorNonce(init, last, t) == IF ~init THEN t ELSE last

\* ---------------------------------------------------------------- messages
BoolText(b) == IF b THEN "true" ELSE "false"

MissingCredentials(exchange, apiKey, apiSecret) ==
  <<"Missing API credentials", " for ", exchange, ". API Key: ",
    BoolText(Truthy(apiKey)), ", API Secret: ", BoolText(Truthy(apiSecret))>>

RECURSIVE Join(_, _)
\* Array.prototype.join
Join(list, sep) ==
  IF list = <<>> THEN <<>>
  ELSE IF Len(list) = 1 THEN <<list[1]>>
  ELSE <<list[1], sep>> \o Join(Tail(list), sep)

KrakenApiError(errors) == <<"Kraken API error:", " ">> \o Join(errors, ", ")
CouldNotFetchBalance(name) == <<"Could not fetch balance", " for ", name>>
CouldNotCreateSellOrder(name) == <<"Could not create sell order", " for ", name>>
CouldNotFetchServerTime(name) == <<"Could not fetch server time", " for ", name>>
FailedToPlaceOrder(exchange, quantity, pair, err) ==
  <<"Failed to place order with ", exchange, " for ", quantity, " ", pair, ": ">>
    \o err
OrderPlaced(exchange, quantity, pair, statusText) ==
  <<"Order placed with ", exchange, " for ", quantity, " ", pair, ": ", statusText>>

\* the settled value of a call's promise
Pending == [state |-> "pending"]
Resolved(v) == [state |-> "resolved", value |-> v]
Rejected(msg) == [state |-> "rejected", message |-> msg]

\* ---------------------------------------------------------------- numbers
Digit(d) ==
  CASE d = 0 -> "0" [] d = 1 -> "1" [] d = 2 -> "2" [] d = 3 -> "3"
    [] d = 4 -> "4" [] d = 5 -> "5" [] d = 6 -> "6" [] d = 7 -> "7"
    [] d = 8 -> "8" [] d = 9 -> "9"

DigitValue(ch) == CHOOSE d \in 0..9 : Digit(d) = ch

IsDigit(ch) == \E d \in 0..9 : Digit(d) = ch

RECURSIVE NatToString(_)
NatToString(n) ==
  IF n < 10 THEN <<Digit(n)>> ELSE NatToString(n \div 10) \o <<Digit(n % 10)>>

\* Number.prototype.toString of an integer
NumberToString(n) == IF n < 0 THEN <<"-">> \o NatToString(-n) ELSE NatToString(n)

RECURSIVE DigitsToNat(_)
DigitsToNat(str) ==
  IF str = <<>> THEN 0
  ELSE 10 * DigitsToNat(SubSeq(str, 1, Len(str) - 1)) + DigitValue(str[Len(str)])

\* the integer a decimal string denotes
StringToNumber(str) ==
  IF str # <<>> /\ Head(str) = "-" THEN -DigitsToNat(Tail(str)) ELSE DigitsToNat(str)

\* ----------------------------------------------------------------- assets
S_BTC == <<"B", "T", "C">>
S_USDT == <<"U", "S", "D", "T">>
S_XXBT == <<"X", "X", "B", "T">>
S_btc == <<"b", "t", "c">>
S_ETH == <<"E", "T", "H">>
S_USD == <<"U", "S", "D">>
S_DOGE == <<"D", "O", "G", "E">>
S_doge == <<"d", "o", "g", "e">>
S_XLM == <<"X", "L", "M">>
S_XRP == <<"X", "R", "P">>
S_SOL == <<"S", "O", "L">>

\* the asset names the calls are made for
Tickers == {S_BTC, S_btc, S_ETH, S_USD, S_USDT, S_DOGE, S_doge, S_XLM, S_XRP}

\* the asset the calls are made for
TheAsset(exchange) == [name |-> ticker, exchange |-> exchange, amount |-> 1]

\* String.prototype.toUpperCase, character by character
UpperChar(ch) ==
  CASE ch = "b" -> "B" [] ch = "t" -> "T" [] ch = "c" -> "C" [] ch = "e" -> "E"
    [] ch = "h" -> "H" [] ch = "u" -> "U" [] ch = "s" -> "S" [] ch = "d" -> "D"
    [] ch = "x" -> "X" [] ch = "l" -> "L" [] ch = "m" -> "M" [] ch = "r" -> "R"
    [] ch = "p" -> "P" [] ch = "o" -> "O" [] ch = "g" -> "G"
    [] ch = "a" -> "A" [] ch = "n" -> "N" [] ch = "y" -> "Y" [] ch = "f" -> "F"
    [] ch = "z" -> "Z" [] ch = "k" -> "K"
    [] OTHER -> ch

ToUpperCase(str) == [i \in DOMAIN str |-> UpperChar(str[i])]

\* KrakenApiService.mapAssetToKraken
MapAssetToKraken(assetName) ==
  LET upper == ToUpperCase(assetName) IN
  CASE upper = S_BTC -> S_XXBT
    [] upper = <<"E", "T", "H">> -> <<"X", "E", "T", "H">>
    [] upper = <<"U", "S", "D">> -> <<"Z", "U", "S", "D">>
    [] upper = <<"X", "L", "M">> -> <<"X", "X", "L", "M">>
    [] upper = <<"X", "R", "P">> -> <<"X", "X", "R", "P">>
    [] OTHER -> upper

\* KrakenApiService.createPair
KrakenCreatePair(assetName, to) == MapAssetToKraken(assetName) \o MapAssetToKraken(to)

\* BaseExchangeService.createPair, which MexcApiService inherits
BaseCreatePair(assetName, to) == assetName \o to

EndsWith(str, suffix) ==
  /\ Len(str) >= Len(suffix)
  /\ SubSeq(str, Len(str) - Len(suffix) + 1, Len(str)) = suffix

\* .replace(/USDT$|USD$/, '')
StripQuote(str) ==
  IF EndsWith(str, S_USDT) THEN SubSeq(str, 1, Len(str) - 4)
  ELSE IF EndsWith(str, <<"U", "S", "D">>) THEN SubSeq(str, 1, Len(str) - 3)
  ELSE str

\* the key fetchBalance looks the balance up under
KrakenBalanceKey(assetName) == StripQuote(KrakenCreatePair(assetName, <<>>))

\* --------------------------------------------------------------- signing
Field(k, v) == [k |-> k, v |-> v]

HasNonce(postData) == \E i \in DOMAIN postData : postData[i].k = "nonce"

\* the digits /nonce=(\d+)/ captures in the post body
NonceOf(postData) ==
  postData[CHOOSE i \in DOMAIN postData :
              /\ postData[i].k = "nonce"
              /\ \A j \in DOMAIN postData : postData[j].k = "nonce" => i <= j].v

\* a signer that always hashes a nonce of its own, max(clock, counter + 1)
SignKrakenRequest_ownNonce(path, postData, apiSecret, last, t) ==
  [hmac |-> "sha512", key |-> apiSecret, path |-> path,
   sha256 |-> [nonce |-> NumberToString(Max(t, last + 1)), body |-> postData]]

\* KrakenApiService.signKrakenRequest: the signature as the term
\* base64(HMAC-SHA512(base64decode(secret), path ++ SHA256(nonce ++ postData)))
SignKrakenRequest(path, postData, apiSecret, last, t) ==
  [hmac |-> "sha512", key |-> apiSecret, path |-> path,
   sha256 |-> [nonce |-> IF HasNonce(postData) THEN NonceOf(postData)
                         ELSE NumberToString(Max(t, last + 1)),
               body |-> postData]]

\* the value signKrakenRequest leaves in globalLastNonce
\* a fallback that stores the clock reading it took
SignKrakenCounter_clock(postData, last, t) ==
  IF HasNonce(postData) THEN last ELSE t

SignKrakenCounter(postData, last, t) ==
  IF HasNonce(postData) THEN last ELSE Max(t, last + 1)

\* a signer that leaves the timestamp field out of what it signs
Sign_withoutTimestamp(queryString, apiSecret) ==
  [hmac |-> "sha256", key |-> apiSecret,
   message |-> SelectSeq(queryString, LAMBDA f : f.k # "timestamp")]

\* ExchangeApiService.sign: hex(HMAC-SHA256(secret, queryString)) as a term
Sign(queryString, apiSecret) ==
  [hmac |-> "sha256", key |-> apiSecret, message |-> queryString]

\* ------------------------------------------------------------------ calls
MexcIds == {1}

\* a call: the operation, the adapter instance, the suspension point, the
\* nonce or timestamp it took, the answer it got (history) and its promise
NoCall == [op |-> "none", exch |-> "none", inst |-> 0, pc |-> "idle",
           nonce |-> 0, resp |-> <<>>, result |-> Pending]

\* what the configuration can be: the credential provider (the
\* ExchangeApiService reading EnvService, or an injected IExchangeApiService
\* that returns fixed strings), the key and secret it holds, and the
\* process.env values of USE_TEST_MODE and NODE_ENV
CredentialSetups ==
  {[source |-> "config", key |-> S_key, secret |-> S_secret],
   [source |-> "config", key |-> S_blank, secret |-> S_secret],
   [source |-> "config", key |-> EmptyString, secret |-> S_secret],
   [source |-> "config", key |-> S_key, secret |-> Undefined],
   [source |-> "injected", key |-> EmptyString, secret |-> S_secret],
   [source |-> "injected", key |-> S_key, secret |-> EmptyString]}

ModeSetups ==
  {[USE_TEST_MODE |-> Undefined, NODE_ENV |-> S_production],
   [USE_TEST_MODE |-> S_false, NODE_ENV |-> S_production],
   [USE_TEST_MODE |-> S_false, NODE_ENV |-> S_test]}

\* EnvService.init on process.env
LoadConfig(cred, environ) ==
  [source |-> cred.source,
   key |-> IF cred.source = "config" THEN LoadFromEnvironment(cred.key) ELSE cred.key,
   secret |-> IF cred.source = "config" THEN LoadFromEnvironment(cred.secret)
              ELSE cred.secret,
   useTestMode |-> LoadFromEnvironment(environ.USE_TEST_MODE),
   environment |-> LoadFromEnvironment(environ.NODE_ENV)]

\* this.shouldUseTestMode() under the loaded configuration
TestMode == ShouldUseTestMode(GetBoolean(config.useTestMode), config.environment)

\* the configuration of the deployed service: credentials present, read by
\* the ExchangeApiService
DeployedCredentials == [source |-> "config", key |-> S_key, secret |-> S_secret]

InitState ==
  /\ now = 0
  /\ instanceCount = 0
  /\ globalLastNonce = 0
  /\ initialized = FALSE
  /\ mexcLastNonce = [m \in MexcIds |-> 0]
  /\ timeSyncer = [m \in MexcIds |-> [set |-> FALSE, offset |-> 0, inited |-> FALSE]]
  /\ calls = [c \in CallIds |-> NoCall]
  /\ started = 0
  /\ issued = <<>>
  /\ transport = <<>>
  /\ logs = <<>>
  /\ mode = "unresolved"
  /\ syncer = [cachedTimeOffset |-> 0]
  /\ lastInit = <<>>
  /\ lastRead = <<>>
  /\ lastPair = <<>>
  /\ signed = <<>>
  /\ provided = <<>>
  /\ readings = [init |-> <<>>, largest |-> 0]

\* calls of both adapters under every configuration
Init ==
  /\ InitState
  /\ ticker = S_BTC
  /\ env \in ModeSetups
  /\ \E cred \in CredentialSetups : config = LoadConfig(cred, env)
  /\ callLimit = MaxConfigCalls

\* concurrent Kraken calls under the deployed credentials
InitKraken ==
  /\ InitState
  /\ ticker = S_BTC
  /\ env \in {m \in ModeSetups : m.NODE_ENV = S_production}
  /\ config = LoadConfig(DeployedCredentials, env)
  /\ callLimit = MaxCalls

\* the wall clock moves: forward, or backwards when the host clock is reset
SetClock ==
  /\ \E t \in 0..MaxClock : t # now /\ now' = t
  /\ UNCHANGED <<env, config, callLimit, aloneVars, instanceCount, globalLastNonce, initialized,
                 mexcLastNonce, timeSyncer, calls, started, issued, transport,
                 logs>>

\* new KrakenApiService(...)
KrakenConstruct ==
  /\ instanceCount < MaxInstances
  /\ instanceCount' = instanceCount + 1
  /\ globalLastNonce' = ConstructorNonce(initialized, globalLastNonce, now)
  /\ initialized' = TRUE
  /\ UNCHANGED <<now, env, config, callLimit, quietVars, mexcLastNonce, timeSyncer, calls, started, issued,
                 transport, logs>>
  /\ readings' = IF ~initialized
                  THEN [init |-> <<now>>, largest |-> Max(readings.largest, now)]
                  ELSE readings

\* ------------------------------------------------- Kraken: fetchBalance
\* a catch block that keeps only the credential error and turns every other
\* one into the generic error
KrakenBalanceCatch_generic(msg, asset) ==
  IF Includes(msg, "Missing API credentials") THEN Rejected(msg)
  ELSE Rejected(CouldNotFetchBalance(asset.name))

\* the catch block of KrakenApiService.fetchBalance, given the message of
\* the Error caught: the promise's rejection
KrakenBalanceCatch(msg, asset) ==
  LET keyR == GetAPIKey(config.source, config.key, asset.exchange)
      secR == GetAPISecret(config.source, config.secret, asset.exchange)
  IN IF Includes(msg, "Missing API credentials") \/ Includes(msg, "Kraken API error:")
     THEN Rejected(msg)
     ELSE IF keyR.threw THEN Rejected(keyR.message)
     ELSE IF secR.threw THEN Rejected(secR.message)
     ELSE Rejected(CouldNotFetchBalance(asset.name))

\* the call slot the next adapter call takes
NewCall(c) == c = started + 1 /\ c <= callLimit

\* fetchBalance from its call to the await of axios.post
KrakenFetchBalance(c, i) ==
  /\ NewCall(c)
  /\ i \in 1..instanceCount
  /\ LET asset == TheAsset("kraken")
         nonce == GenerateUniqueNonce(globalLastNonce, now)
         path == "/0/private/Balance"
         postData == <<Field("nonce", NumberToString(nonce))>>
         keyR == GetAPIKey(config.source, config.key, asset.exchange)
         secR == GetAPISecret(config.source, config.secret, asset.exchange)
         failure ==
           IF keyR.threw THEN keyR.message
           ELSE IF keyR.value = Undefined THEN <<"TypeError">>
           ELSE IF secR.threw THEN secR.message
           ELSE IF secR.value = Undefined THEN <<"TypeError">>
           ELSE IF ~Truthy(Trim(keyR.value)) \/ ~Truthy(Trim(secR.value))
           THEN MissingCredentials(asset.exchange, Trim(keyR.value), Trim(secR.value))
           ELSE <<>>
         call == [op |-> "fetchBalance", exch |-> "kraken", inst |-> i,
                  pc |-> "awaitHttp", nonce |-> nonce, resp |-> <<>>,
                  result |-> Pending]
     IN /\ issued' = Append(issued, [nonce |-> nonce, inst |-> i, call |-> c])
        /\ IF failure # <<>>
           THEN /\ globalLastNonce' = nonce
                /\ calls' = [calls EXCEPT ![c] =
                     [call EXCEPT !.pc = "done",
                                  !.result = KrakenBalanceCatch(failure, asset)]]
                /\ UNCHANGED transport
           ELSE /\ globalLastNonce' = SignKrakenCounter(postData, nonce, now)
                /\ calls' = [calls EXCEPT ![c] = call]
                /\ transport' = Append(transport,
                     [call |-> c, exch |-> "kraken", method |-> "POST",
                      path |-> path, body |-> postData, query |-> <<>>,
                      apiKey |-> Trim(keyR.value),
                      signature |-> SignKrakenRequest(path, postData,
                                      Trim(secR.value), nonce, now)])
  /\ started' = c
  /\ UNCHANGED <<now, env, config, callLimit, quietVars, instanceCount, initialized, mexcLastNonce,
                 timeSyncer, logs>>
  /\ readings' = [readings EXCEPT !.largest = Max(readings.largest, now)]

\* the error lists Kraken answers with
KrakenErrorLists == {<<>>, <<"EAPI:Invalid key", "EGeneral:Permission denied">>}

\* the answers to the balance request: a transport failure, or a body with
\* an error list and the balances by asset code
KrakenBalanceResponses ==
  {[ok |-> FALSE, error |-> <<>>, result |-> {}]}
    \cup {[ok |-> TRUE, error |-> e, result |-> {}] : e \in KrakenErrorLists}
    \cup {[ok |-> TRUE, error |-> <<>>,
           result |-> {[key |-> S_SOL, amount |-> <<"5">>]}]}
    \cup {[ok |-> TRUE, error |-> <<>>,
           result |-> {[key |-> S_SOL, amount |-> <<"5">>],
                       [key |-> MapAssetToKraken(ticker), amount |-> a]}] :
            a \in {<<"0">>, <<"2">>}}

\* data.result?.[key] and parseFloat, 0 when the key is absent
BalanceIn(result, key) ==
  IF \E r \in result : r.key = key
  THEN StringToNumber((CHOOSE r \in result : r.key = key).amount)
  ELSE 0

\* fetchBalance from the answer to axios.post to its end
KrakenFetchBalanceResponse(c) ==
  /\ calls[c].exch = "kraken" /\ calls[c].op = "fetchBalance"
  /\ calls[c].pc = "awaitHttp"
  /\ \E resp \in KrakenBalanceResponses :
       LET asset == TheAsset("kraken")
           result ==
             IF ~resp.ok THEN KrakenBalanceCatch(<<"Network Error">>, asset)
             ELSE IF Len(resp.error) > 0
             THEN KrakenBalanceCatch(KrakenApiError(resp.error), asset)
             ELSE Resolved(BalanceIn(resp.result, KrakenBalanceKey(asset.name)))
       IN calls' = [calls EXCEPT ![c].pc = "done", ![c].resp = <<resp>>,
                                    ![c].result = result]
  /\ UNCHANGED <<now, env, config, callLimit, aloneVars, instanceCount, globalLastNonce, initialized,
                 mexcLastNonce, timeSyncer, started, issued, transport, logs>>

\* --------------------------------------------------- Kraken: fetchPrice
\* String.prototype.includes
StringIncludes(str, sub) ==
  \E i \in 1..(Len(str) - Len(sub) + 1) : SubSeq(str, i, i + Len(sub) - 1) = sub

\* String.prototype.replace with a string pattern: the first occurrence
ReplaceFirst(str, pat, by) ==
  IF StringIncludes(str, pat)
  THEN LET i == CHOOSE k \in 1..(Len(str) - Len(pat) + 1) :
                  /\ SubSeq(str, k, k + Len(pat) - 1) = pat
                  /\ \A j \in 1..(k - 1) : SubSeq(str, j, j + Len(pat) - 1) # pat
       IN SubSeq(str, 1, i - 1) \o by \o SubSeq(str, i + Len(pat), Len(str))
  ELSE str

NoPriceData(pair) == <<"No price data found", " for pair ">> \o pair
CouldNotFetchPrice(name) == <<"Could not fetch price", " for ">> \o name

\* the key scan of fetchPrice: whether a returned key matches the asset
KeyMatchesAsset(key, assetName) ==
  \/ StringIncludes(key, ToUpperCase(assetName))
  \/ StringIncludes(key, ToUpperCase(ReplaceFirst(assetName, S_BTC, <<"X", "B", "T">>)))

\* the ticker entry fetchPrice reads the price from: data.result?.[pair], or
\* the entry of the first key of Object.keys(data.result) that matches the
\* asset; <<>> when there is none
PriceData(result, pair, assetName) ==
  IF \E k \in DOMAIN result : result[k].key = pair
  THEN <<result[CHOOSE k \in DOMAIN result : result[k].key = pair]>>
  ELSE IF \E k \in DOMAIN result : KeyMatchesAsset(result[k].key, assetName)
  THEN <<result[CHOOSE k \in DOMAIN result :
                  /\ KeyMatchesAsset(result[k].key, assetName)
                  /\ \A j \in 1..(k - 1) :
                       ~KeyMatchesAsset(result[j].key, assetName)]>>
  ELSE <<>>

\* the catch block of KrakenApiService.fetchPrice
KrakenPriceCatch(msg, asset) ==
  IF Includes(msg, "No price data found") THEN Rejected(msg)
  ELSE Rejected(CouldNotFetchPrice(asset.name))

\* fetchPrice from its call to the await of axios.get
KrakenFetchPrice(c, i) ==
  /\ NewCall(c)
  /\ i \in 1..instanceCount
  /\ LET asset == TheAsset("kraken")
         pair == KrakenCreatePair(asset.name, S_USDT)
     IN /\ calls' = [calls EXCEPT ![c] =
             [op |-> "fetchPrice", exch |-> "kraken", inst |-> i,
              pc |-> "awaitHttp", nonce |-> 0, resp |-> <<>>, result |-> Pending]]
        /\ transport' = Append(transport,
             [call |-> c, exch |-> "kraken", method |-> "GET",
              path |-> "/0/public/Ticker", body |-> <<>>,
              query |-> <<Field("pair", pair)>>, apiKey |-> Undefined,
              signature |-> Undefined])
  /\ started' = c
  /\ UNCHANGED <<now, env, config, callLimit, aloneVars, instanceCount,
                 globalLastNonce, initialized, mexcLastNonce, timeSyncer,
                 issued, logs>>

\* the key Kraken answers under when it does not echo the pair asked for
AlternateKey(assetName) ==
  ReplaceFirst(ToUpperCase(assetName), S_BTC, <<"X", "B", "T">>) \o S_USDT

\* the answers to the ticker request: a transport failure, or the ticker
\* entries in the order Object.keys returns them, each with its c array
KrakenPriceResponses ==
  LET pair == KrakenCreatePair(ticker, S_USDT)
      other == [key |-> S_SOL \o S_USDT, c |-> <<<<"9">>>>]
  IN {[ok |-> FALSE, result |-> <<>>],
      [ok |-> TRUE, result |-> <<>>],
      [ok |-> TRUE, result |-> <<other>>],
      [ok |-> TRUE, result |-> <<other, [key |-> pair, c |-> <<<<"5">>>>]>>],
      [ok |-> TRUE, result |-> <<other, [key |-> AlternateKey(ticker), c |-> <<<<"6">>>>],
                                 [key |-> <<"Z">> \o AlternateKey(ticker), c |-> <<<<"7">>>>]>>],
      [ok |-> TRUE, result |-> <<[key |-> <<"Z">> \o AlternateKey(ticker), c |-> <<>>]>>]}

\* fetchPrice from the answer to axios.get to its end
KrakenFetchPriceResponse(c) ==
  /\ calls[c].exch = "kraken" /\ calls[c].op = "fetchPrice"
  /\ calls[c].pc = "awaitHttp"
  /\ \E resp \in KrakenPriceResponses :
       LET asset == TheAsset("kraken")
           pair == KrakenCreatePair(asset.name, S_USDT)
           priceData == PriceData(resp.result, pair, asset.name)
           result ==
             IF ~resp.ok THEN KrakenPriceCatch(<<"Network Error">>, asset)
             ELSE IF priceData = <<>> \/ priceData[1].c = <<>>
             THEN KrakenPriceCatch(NoPriceData(pair), asset)
             ELSE Resolved(StringToNumber(priceData[1].c[1]))
       IN calls' = [calls EXCEPT ![c].pc = "done", ![c].resp = <<resp>>,
                                    ![c].result = result]
  /\ UNCHANGED <<now, env, config, callLimit, aloneVars, instanceCount,
                 globalLastNonce, initialized, mexcLastNonce, timeSyncer,
                 started, issued, transport, logs>>

\* ---------------------------------- ExchangeApiService.createMarketSellOrder
\* the answers to an order request: a transport failure, or a 2xx response
\* whose body carries an error list (empty when the order was accepted)
OrderResponses ==
  {[ok |-> FALSE, error |-> <<>>]}
    \cup {[ok |-> TRUE, error |-> e] :
            e \in {<<>>, <<"EOrder:Insufficient funds">>}}

\* ExchangeApiService.createMarketSellOrder after axios answered: the log
\* entry it writes and how its promise settles
PlaceOrderOutcome(resp, pair, quantity, exchange) ==
  IF resp.ok
  THEN [log |-> [kind |-> "log",
                 message |-> OrderPlaced(exchange, NumberToString(quantity), pair, "OK")],
        settled |-> Resolved(Undefined)]
  ELSE LET msg == FailedToPlaceOrder(exchange, NumberToString(quantity), pair,
                                     <<"Network Error">>)
       IN [log |-> [kind |-> "logError", message |-> msg],
           settled |-> Rejected(msg)]

\* -------------------------------------------- Kraken: createMarketSellOrder
\* the catch block of KrakenApiService.createMarketSellOrder
KrakenOrderCatch(msg, asset) ==
  IF Includes(msg, "Kraken API error:") \/ Includes(msg, "API Error")
  THEN Rejected(msg)
  ELSE Rejected(CouldNotCreateSellOrder(asset.name))

\* the order parameters, validate=true added in test mode
KrakenOrderParams(nonce, volume, pair, testMode) ==
  <<Field("nonce", NumberToString(nonce)), Field("ordertype", <<"market">>),
    Field("type", <<"sell">>), Field("volume", NumberToString(volume)),
    Field("pair", pair)>>
    \o (IF testMode THEN <<Field("validate", S_true)>> ELSE <<>>)

\* createMarketSellOrder from its call to the await of axios.post inside
\* ExchangeApiService.createMarketSellOrder
KrakenCreateMarketSellOrder(c, i) ==
  /\ NewCall(c)
  /\ i \in 1..instanceCount
  /\ LET asset == TheAsset("kraken")
         pair == KrakenCreatePair(asset.name, S_USDT)
         nonce == GenerateUniqueNonce(globalLastNonce, now)
         postData == KrakenOrderParams(nonce, asset.amount, pair, TestMode)
         path == "/0/private/AddOrder"
         keyR == GetAPIKey(config.source, config.key, asset.exchange)
         secR == GetAPISecret(config.source, config.secret, asset.exchange)
         failure ==
           IF secR.threw THEN secR.message
           ELSE IF secR.value = Undefined THEN <<"TypeError">>
           ELSE IF keyR.threw THEN keyR.message
           ELSE <<>>
         call == [op |-> "createMarketSellOrder", exch |-> "kraken", inst |-> i,
                  pc |-> "awaitHttp", nonce |-> nonce, resp |-> <<>>,
                  result |-> Pending]
     IN /\ issued' = Append(issued, [nonce |-> nonce, inst |-> i, call |-> c])
        /\ IF failure # <<>>
           THEN /\ globalLastNonce' = nonce
                /\ calls' = [calls EXCEPT ![c] =
                     [call EXCEPT !.pc = "done",
                                  !.result = KrakenOrderCatch(failure, asset)]]
                /\ UNCHANGED transport
           ELSE /\ globalLastNonce' = SignKrakenCounter(postData, nonce, now)
                /\ calls' = [calls EXCEPT ![c] = call]
                /\ transport' = Append(transport,
                     [call |-> c, exch |-> "kraken", method |-> "POST",
                      path |-> path, body |-> postData, query |-> <<>>,
                      apiKey |-> keyR.value,
                      signature |-> SignKrakenRequest(path, postData, secR.value,
                                                      nonce, now)])
  /\ started' = c
  /\ UNCHANGED <<now, env, config, callLimit, quietVars, instanceCount, initialized, mexcLastNonce,
                 timeSyncer, logs>>
  /\ readings' = [readings EXCEPT !.largest = Max(readings.largest, now)]

\* createMarketSellOrder from the answer to axios.post to its end
KrakenOrderResponse(c) ==
  /\ calls[c].exch = "kraken" /\ calls[c].op = "createMarketSellOrder"
  /\ calls[c].pc = "awaitHttp"
  /\ \E resp \in OrderResponses :
       LET asset == TheAsset("kraken")
           out == PlaceOrderOutcome(resp, KrakenCreatePair(asset.name, S_USDT),
                                    asset.amount, asset.exchange)
           result == IF out.settled.state = "rejected"
                     THEN KrakenOrderCatch(out.settled.message, asset)
                     ELSE out.settled
       IN /\ logs' = Append(logs, [call |-> c] @@ out.log)
          /\ calls' = [calls EXCEPT ![c].pc = "done", ![c].resp = <<resp>>,
                                    ![c].result = result]
  /\ UNCHANGED <<now, env, config, callLimit, aloneVars, instanceCount, globalLastNonce, initialized,
                 mexcLastNonce, timeSyncer, started, issued, transport>>

\* ------------------------------------------------------ ExchangeTimeSyncer
\* the offset with its sign reversed
InitFromServer_reversed(serverTime, t) == t - serverTime

\* ExchangeTimeSyncer.initFromServer: the offset it caches
InitFromServer(serverTime, t) == serverTime - t

\* the local clock subtracted from the offset
GetSynchronizedTimestamp_reversed(offset, t) == offset - t

\* ExchangeTimeSyncer.getSynchronizedTimestamp
GetSynchronizedTimestamp(offset, t) == t + offset

\* ExchangeTimeSyncer.now
SyncerNow(offset, t) == GetSynchronizedTimestamp(offset, t)

\* ExchangeTimeSyncer.getTimestampString
GetTimestampString(offset, t) == NumberToString(SyncerNow(offset, t))

\* how far the exchange's clock is from the local one when it answers
Skews == {-1, 0, 1}

\* ------------------------------------------------------------------- MEXC
\* an adapter reading the Kraken counter as its last timestamp
LastNonceOf_krakenCounter(m) == globalLastNonce

\* this.lastNonce of MEXC instance m
LastNonceOf(m) == mexcLastNonce[m]

\* a timestamp taken from the synchronized clock alone
EnsureUniqueNonce_clockOnly(last, timestamp) == timestamp

\* MexcApiService.ensureUniqueNonce: the value stored in lastNonce and returned
EnsureUniqueNonce(last, timestamp) ==
  IF timestamp <= last THEN last + 1 ELSE timestamp

\* the syncer is created only once its server time has arrived
NeedsTimeSync_untilInited(ts) == ~ts.inited

\* getTimeSyncer's test if (!this.timeSyncer)
NeedsTimeSync(ts) == ~ts.set

\* fetchBalance / createMarketSellOrder from the call to the first await:
\* getTimeSyncer creates the syncer and asks the exchange for its time when
\* the instance has none, and returns the one it has otherwise
MexcCall(c, m, op) ==
  /\ NewCall(c)
  /\ m \in MexcIds
  /\ LET call == [op |-> op, exch |-> "mexc", inst |-> m, pc |-> "syncerReady",
                  nonce |-> 0, resp |-> <<>>, result |-> Pending]
     IN IF NeedsTimeSync(timeSyncer[m])
        THEN /\ timeSyncer' = [timeSyncer EXCEPT ![m].set = TRUE]
             /\ transport' = Append(transport,
                  [call |-> c, exch |-> "mexc", method |-> "GET",
                   path |-> "/api/v3/time", body |-> <<>>, query |-> <<>>,
                   apiKey |-> Undefined, signature |-> Undefined])
             /\ calls' = [calls EXCEPT ![c] = [call EXCEPT !.pc = "awaitTime"]]
        ELSE /\ calls' = [calls EXCEPT ![c] = call]
             /\ UNCHANGED <<timeSyncer, transport>>
  /\ started' = c
  /\ UNCHANGED <<now, env, config, callLimit, aloneVars, instanceCount, globalLastNonce, initialized,
                 mexcLastNonce, issued, logs>>

MexcFetchBalance(c, m) == MexcCall(c, m, "fetchBalance")

MexcCreateMarketSellOrder(c, m) == MexcCall(c, m, "createMarketSellOrder")

\* getTimeSyncer after the server-time request was answered
MexcTimeResponse(c) ==
  /\ calls[c].exch = "mexc" /\ calls[c].pc = "awaitTime"
  /\ LET m == calls[c].inst IN
     \/ \E skew \in Skews :
          /\ timeSyncer' = [timeSyncer EXCEPT
               ![m].offset = InitFromServer(now + skew, now),
               ![m].inited = TRUE]
          /\ calls' = [calls EXCEPT ![c].pc = "syncerReady"]
     \/ /\ calls' = [calls EXCEPT ![c].pc = "done",
             ![c].result = Rejected(CouldNotFetchServerTime(TheAsset("mexc").name))]
        /\ UNCHANGED timeSyncer
  /\ UNCHANGED <<now, env, config, callLimit, aloneVars, instanceCount, globalLastNonce, initialized,
                 mexcLastNonce, started, issued, transport, logs>>

\* the query string of the balance request
MexcBalanceQuery(timestamp) == <<Field("timestamp", NumberToString(timestamp))>>

\* the query string of the order request
MexcOrderQuery(coinpair, quantity, timestamp) ==
  <<Field("symbol", coinpair), Field("side", <<"SELL">>),
    Field("type", <<"MARKET">>), Field("quantity", NumberToString(quantity)),
    Field("timestamp", NumberToString(timestamp))>>

\* fetchBalance from the time syncer to the await of axios.get
MexcFetchBalanceSend(c) ==
  /\ calls[c].exch = "mexc" /\ calls[c].op = "fetchBalance"
  /\ calls[c].pc = "syncerReady"
  /\ LET m == calls[c].inst
         asset == TheAsset("mexc")
         timestamp == EnsureUniqueNonce(LastNonceOf(m),
                                        SyncerNow(timeSyncer[m].offset, now))
         queryString == MexcBalanceQuery(timestamp)
         keyR == GetAPIKey(config.source, config.key, asset.exchange)
         secR == GetAPISecret(config.source, config.secret, asset.exchange)
         failure ==
           IF keyR.threw THEN keyR.message
           ELSE IF secR.threw THEN secR.message
           ELSE IF ~Truthy(keyR.value) \/ ~Truthy(secR.value)
           THEN MissingCredentials(asset.exchange, keyR.value, secR.value)
           ELSE <<>>
     IN /\ mexcLastNonce' = [mexcLastNonce EXCEPT ![m] = timestamp]
        /\ IF failure # <<>>
           THEN /\ calls' = [calls EXCEPT ![c].pc = "done", ![c].nonce = timestamp,
                                          ![c].result = Rejected(failure)]
                /\ UNCHANGED transport
           ELSE /\ calls' = [calls EXCEPT ![c].pc = "awaitHttp",
                                          ![c].nonce = timestamp]
                /\ transport' = Append(transport,
                     [call |-> c, exch |-> "mexc", method |-> "GET",
                      path |-> "/api/v3/account", body |-> <<>>,
                      query |-> queryString, apiKey |-> keyR.value,
                      signature |-> Sign(queryString, secR.value)])
  /\ UNCHANGED <<now, env, config, callLimit, aloneVars, instanceCount, globalLastNonce, initialized,
                 timeSyncer, started, issued, logs>>

\* the answers to the account request: a transport failure, or the balances
MexcBalanceResponses ==
  {[ok |-> FALSE, balances |-> <<>>], [ok |-> TRUE, balances |-> <<>>]}
    \cup {[ok |-> TRUE, balances |-> <<[asset |-> S_SOL, free |-> <<"5">>]>>]}
    \cup {[ok |-> TRUE, balances |-> <<[asset |-> S_SOL, free |-> <<"5">>],
                                       [asset |-> ToUpperCase(ticker), free |-> f]>>] :
            f \in {<<"0">>, <<"2">>}}

\* the loop without the test of the coin's name: the first coin listed
MexcBalanceOf_firstListed(balances, assetName) ==
  IF balances = <<>> THEN 0 ELSE StringToNumber(Head(balances).free)

RECURSIVE MexcBalanceOf(_, _)
\* the loop over data.balances
MexcBalanceOf(balances, assetName) ==
  IF balances = <<>> THEN 0
  ELSE IF ToLowerCase(Head(balances).asset) = ToLowerCase(assetName)
  THEN StringToNumber(Head(balances).free)
  ELSE MexcBalanceOf(Tail(balances), assetName)

\* fetchBalance from the answer to axios.get to its end
MexcFetchBalanceResponse(c) ==
  /\ calls[c].exch = "mexc" /\ calls[c].op = "fetchBalance"
  /\ calls[c].pc = "awaitHttp"
  /\ \E resp \in MexcBalanceResponses :
       LET asset == TheAsset("mexc")
           result == IF ~resp.ok THEN Rejected(CouldNotFetchBalance(asset.name))
                     ELSE Resolved(MexcBalanceOf(resp.balances, asset.name))
       IN calls' = [calls EXCEPT ![c].pc = "done", ![c].resp = <<resp>>,
                                    ![c].result = result]
  /\ UNCHANGED <<now, env, config, callLimit, aloneVars, instanceCount, globalLastNonce, initialized,
                 mexcLastNonce, timeSyncer, started, issued, transport, logs>>

\* the live endpoint whatever the mode
MexcOrderEndpoint_alwaysLive(testMode) == "/api/v3/order"

\* the endpoint createMarketSellOrder posts to
MexcOrderEndpoint(testMode) ==
  IF testMode THEN "/api/v3/order/test" ELSE "/api/v3/order"

\* createMarketSellOrder from the time syncer to the await of axios.post
\* inside ExchangeApiService.createMarketSellOrder
MexcOrderSend(c) ==
  /\ calls[c].exch = "mexc" /\ calls[c].op = "createMarketSellOrder"
  /\ calls[c].pc = "syncerReady"
  /\ LET m == calls[c].inst
         asset == TheAsset("mexc")
         coinpair == BaseCreatePair(asset.name, S_USDT)
         timestamp == EnsureUniqueNonce(LastNonceOf(m),
                                        SyncerNow(timeSyncer[m].offset, now))
         queryString == MexcOrderQuery(coinpair, asset.amount, timestamp)
         keyR == GetAPIKey(config.source, config.key, asset.exchange)
         secR == GetAPISecret(config.source, config.secret, asset.exchange)
         failure == IF secR.threw THEN secR.message
                    ELSE IF keyR.threw THEN keyR.message
                    ELSE <<>>
     IN /\ mexcLastNonce' = [mexcLastNonce EXCEPT ![m] = timestamp]
        /\ IF failure # <<>>
           THEN /\ calls' = [calls EXCEPT ![c].pc = "done", ![c].nonce = timestamp,
                                          ![c].result = Rejected(failure)]
                /\ UNCHANGED transport
           ELSE /\ calls' = [calls EXCEPT ![c].pc = "awaitHttp",
                                          ![c].nonce = timestamp]
                /\ transport' = Append(transport,
                     [call |-> c, exch |-> "mexc", method |-> "POST",
                      path |-> MexcOrderEndpoint(TestMode), body |-> <<>>,
                      query |-> queryString, apiKey |-> keyR.value,
                      signature |-> Sign(queryString, secR.value)])
  /\ UNCHANGED <<now, env, config, callLimit, aloneVars, instanceCount, globalLastNonce, initialized,
                 timeSyncer, started, issued, logs>>

\* createMarketSellOrder from the answer to axios.post to its end
MexcOrderResponse(c) ==
  /\ calls[c].exch = "mexc" /\ calls[c].op = "createMarketSellOrder"
  /\ calls[c].pc = "awaitHttp"
  /\ \E resp \in OrderResponses :
       LET asset == TheAsset("mexc")
           out == PlaceOrderOutcome(resp, BaseCreatePair(asset.name, S_USDT),
                                    asset.amount, asset.exchange)
       IN /\ logs' = Append(logs, [call |-> c] @@ out.log)
          /\ calls' = [calls EXCEPT ![c].pc = "done", ![c].resp = <<resp>>,
                                       ![c].result = out.settled]
  /\ UNCHANGED <<now, env, config, callLimit, aloneVars, instanceCount, globalLastNonce, initialized,
                 mexcLastNonce, timeSyncer, started, issued, transport>>

Next ==
  \/ SetClock
  \/ KrakenConstruct
  \/ \E c \in CallIds, i \in 1..MaxInstances : KrakenFetchBalance(c, i)
  \/ \E c \in CallIds : KrakenFetchBalanceResponse(c)
  \/ \E c \in CallIds, i \in 1..MaxInstances : KrakenCreateMarketSellOrder(c, i)
  \/ \E c \in CallIds : KrakenOrderResponse(c)
  \/ \E c \in CallIds, m \in MexcIds : MexcFetchBalance(c, m)
  \/ \E c \in CallIds, m \in MexcIds : MexcCreateMarketSellOrder(c, m)
  \/ \E c \in CallIds : MexcTimeResponse(c)
  \/ \E c \in CallIds : MexcFetchBalanceSend(c)
  \/ \E c \in CallIds : MexcFetchBalanceResponse(c)
  \/ \E c \in CallIds : MexcOrderSend(c)
  \/ \E c \in CallIds : MexcOrderResponse(c)

Spec == Init /\ [][Next]_vars

\* the Kraken adapter alone, its calls running concurrently
NextKraken ==
  \/ SetClock
  \/ KrakenConstruct
  \/ \E c \in CallIds, i \in 1..MaxInstances : KrakenFetchBalance(c, i)
  \/ \E c \in CallIds : KrakenFetchBalanceResponse(c)
  \/ \E c \in CallIds, i \in 1..MaxInstances : KrakenCreateMarketSellOrder(c, i)
  \/ \E c \in CallIds : KrakenOrderResponse(c)

SpecKraken == InitKraken /\ [][NextKraken]_vars

\* the MEXC adapter alone, its calls running concurrently
InitMexc ==
  /\ InitState
  /\ ticker = S_BTC
  /\ env \in {m \in ModeSetups : m.NODE_ENV = S_production}
  /\ config = LoadConfig(DeployedCredentials, env)
  /\ callLimit = MaxCalls

NextMexc ==
  \/ SetClock
  \/ \E c \in CallIds, m \in MexcIds : MexcFetchBalance(c, m)
  \/ \E c \in CallIds, m \in MexcIds : MexcCreateMarketSellOrder(c, m)
  \/ \E c \in CallIds : MexcTimeResponse(c)
  \/ \E c \in CallIds : MexcFetchBalanceSend(c)
  \/ \E c \in CallIds : MexcFetchBalanceResponse(c)
  \/ \E c \in CallIds : MexcOrderSend(c)
  \/ \E c \in CallIds : MexcOrderResponse(c)

SpecMexc == InitMexc /\ [][NextMexc]_vars

\* ------------------------- the nonce generator and the signers on their own
MaxNonceClock == 3
MaxDirectCalls == 3

InitNonce ==
  /\ InitState
  /\ ticker = S_BTC
  /\ env = [USE_TEST_MODE |-> S_true, NODE_ENV |-> S_test]
  /\ config = LoadConfig(DeployedCredentials, env)
  /\ callLimit = 0

\* Date.now() between two direct calls: the clock jumps ahead or back
Tick ==
  /\ \E t \in 0..MaxNonceClock : t # now /\ now' = t
  /\ UNCHANGED <<env, config, callLimit, aloneVars, instanceCount,
                 globalLastNonce, initialized, mexcLastNonce, timeSyncer,
                 calls, started, issued, transport, logs>>

DirectCalls == Len(issued) + Len(signed)

\* generateUniqueNonce() called on the instance i
CallGenerateUniqueNonce(i) ==
  /\ DirectCalls < MaxDirectCalls
  /\ i \in 1..instanceCount
  /\ LET nonce == GenerateUniqueNonce(globalLastNonce, now)
     IN /\ globalLastNonce' = nonce
        /\ issued' = Append(issued, [nonce |-> nonce, inst |-> i, call |-> 0])
  /\ UNCHANGED <<now, env, config, callLimit, quietVars, instanceCount,
                 initialized, mexcLastNonce, timeSyncer, calls, started,
                 transport, logs>>
  /\ readings' = [readings EXCEPT !.largest = Max(readings.largest, now)]

\* the post bodies signKrakenRequest is called with: one carrying the nonce
\* field, one without it
SignBodies ==
  {<<Field("nonce", <<"7">>)>>, <<Field("ordertype", <<"market">>)>>}

\* signKrakenRequest(path, postData, apiSecret) called on an instance
CallSignKrakenRequest ==
  /\ DirectCalls < MaxDirectCalls
  /\ instanceCount >= 1
  /\ \E postData \in SignBodies :
       LET path == "/0/private/Balance"
           counter == SignKrakenCounter(postData, globalLastNonce, now)
       IN /\ signed' = Append(signed,
               [signer |-> "signKrakenRequest", path |-> path, data |-> postData,
                secret |-> S_secret, counterBefore |-> globalLastNonce,
                counterAfter |-> counter,
                signature |-> SignKrakenRequest(path, postData, S_secret,
                                                globalLastNonce, now)])
          /\ globalLastNonce' = counter
          /\ readings' = IF HasNonce(postData) THEN readings
                          ELSE [readings EXCEPT
                                  !.largest = Max(readings.largest, now)]
  /\ UNCHANGED <<now, env, config, callLimit, mode, syncer, lastInit, lastRead,
                 ticker, lastPair, provided, instanceCount, initialized,
                 mexcLastNonce, timeSyncer, calls, started, issued, transport,
                 logs>>

\* ExchangeApiService.sign(queryString, apiSecret) called on the provider
CallSign ==
  /\ DirectCalls < MaxDirectCalls
  /\ LET queryString == <<Field("timestamp", <<"7">>)>>
     IN signed' = Append(signed,
          [signer |-> "sign", path |-> "", data |-> queryString,
           secret |-> S_secret, counterBefore |-> globalLastNonce,
           counterAfter |-> globalLastNonce,
           signature |-> Sign(queryString, S_secret)])
  /\ UNCHANGED <<now, env, config, callLimit, mode, syncer, lastInit, lastRead,
                 ticker, lastPair, provided, instanceCount, globalLastNonce,
                 initialized, mexcLastNonce, timeSyncer, calls, started, issued,
                 transport, logs,
                 readings>>

\* both adapters in one process: Kraken nonces drawn by its instances
\* while MEXC operations run up to the sending of their signed request,
\* deployed configuration
InitBoth ==
  /\ InitState
  /\ ticker = S_BTC
  /\ env = [USE_TEST_MODE |-> S_false, NODE_ENV |-> S_production]
  /\ config = LoadConfig(DeployedCredentials, env)
  /\ callLimit = MaxConfigCalls

NextBoth ==
  \/ SetClock
  \/ KrakenConstruct
  \/ \E i \in 1..MaxInstances : CallGenerateUniqueNonce(i)
  \/ \E c \in CallIds, m \in MexcIds : MexcFetchBalance(c, m)
  \/ \E c \in CallIds, m \in MexcIds : MexcCreateMarketSellOrder(c, m)
  \/ \E c \in CallIds : MexcTimeResponse(c)
  \/ \E c \in CallIds : MexcFetchBalanceSend(c)
  \/ \E c \in CallIds : MexcOrderSend(c)

SpecBoth == InitBoth /\ [][NextBoth]_vars

NextNonce ==
  \/ Tick
  \/ KrakenConstruct
  \/ \E i \in 1..MaxInstances : CallGenerateUniqueNonce(i)
  \/ CallSignKrakenRequest
  \/ CallSign

SpecNonce == InitNonce /\ [][NextNonce]_vars

\* the read-only operations of both adapters for every asset name
InitAssets ==
  /\ InitState
  /\ ticker \in Tickers
  /\ env = [USE_TEST_MODE |-> S_true, NODE_ENV |-> S_test]
  /\ config = LoadConfig(DeployedCredentials, env)
  /\ callLimit = MaxConfigCalls

NextAssets ==
  \/ KrakenConstruct
  \/ \E c \in CallIds, i \in 1..MaxInstances : KrakenFetchBalance(c, i)
  \/ \E c \in CallIds : KrakenFetchBalanceResponse(c)
  \/ \E c \in CallIds, i \in 1..MaxInstances : KrakenFetchPrice(c, i)
  \/ \E c \in CallIds : KrakenFetchPriceResponse(c)
  \/ \E c \in CallIds, m \in MexcIds : MexcFetchBalance(c, m)
  \/ \E c \in CallIds : MexcTimeResponse(c)
  \/ \E c \in CallIds : MexcFetchBalanceSend(c)
  \/ \E c \in CallIds : MexcFetchBalanceResponse(c)

SpecAssets == InitAssets /\ [][NextAssets]_vars

\* ------------------- createPair and the credential provider on their own
\* the second argument of createPair; the first is its default
PairTargets == {S_USDT, S_USD, <<"u", "s", "d", "t">>}

InitUnit ==
  /\ InitState
  /\ ticker \in Tickers
  /\ env = [USE_TEST_MODE |-> S_true, NODE_ENV |-> S_test]
  /\ config = LoadConfig(DeployedCredentials, env)
  /\ callLimit = 0

\* krakenApiService.createPair(asset, to)
CallKrakenCreatePair ==
  /\ \E to \in PairTargets :
       lastPair' = <<[adapter |-> "kraken", name |-> ticker, to |-> to,
                      pair |-> KrakenCreatePair(TheAsset("kraken").name, to)]>>
  /\ UNCHANGED <<now, env, config, instanceCount, globalLastNonce, initialized,
                 mexcLastNonce, timeSyncer, calls, started, callLimit, issued,
                 transport, logs, mode, syncer, lastInit, lastRead, ticker,
                 signed, provided,
                 readings>>

\* mexcApiService.createPair(asset, to), inherited from BaseExchangeService
CallMexcCreatePair ==
  /\ \E to \in PairTargets :
       lastPair' = <<[adapter |-> "mexc", name |-> ticker, to |-> to,
                      pair |-> BaseCreatePair(TheAsset("mexc").name, to)]>>
  /\ UNCHANGED <<now, env, config, instanceCount, globalLastNonce, initialized,
                 mexcLastNonce, timeSyncer, calls, started, callLimit, issued,
                 transport, logs, mode, syncer, lastInit, lastRead, ticker,
                 signed, provided,
                 readings>>

Exchanges == {"kraken", "mexc"}

\* what EnvService.get returns for api.<exchange>.apiKey / apiSecret: a
\* string of process.env or of the config file, or undefined
StoredValues == {Undefined, EmptyString, S_blank, S_key, S_secret}

\* exchangeApiService.getAPIKey(exchange) over a configuration
CallGetAPIKey ==
  /\ \E store \in [Exchanges -> StoredValues], exchange \in Exchanges :
       provided' = <<[op |-> "getAPIKey", exchange |-> exchange, store |-> store,
                      outcome |-> GetAPIKey("config", store[exchange], exchange)]>>
  /\ UNCHANGED <<now, env, config, instanceCount, globalLastNonce, initialized,
                 mexcLastNonce, timeSyncer, calls, started, callLimit, issued,
                 transport, logs, mode, syncer, lastInit, lastRead, ticker,
                 lastPair, signed,
                 readings>>

\* exchangeApiService.getAPISecret(exchange) over a configuration
CallGetAPISecret ==
  /\ \E store \in [Exchanges -> StoredValues], exchange \in Exchanges :
       provided' = <<[op |-> "getAPISecret", exchange |-> exchange, store |-> store,
                      outcome |-> GetAPISecret("config", store[exchange], exchange)]>>
  /\ UNCHANGED <<now, env, config, instanceCount, globalLastNonce, initialized,
                 mexcLastNonce, timeSyncer, calls, started, callLimit, issued,
                 transport, logs, mode, syncer, lastInit, lastRead, ticker,
                 lastPair, signed,
                 readings>>

NextUnit ==
  \/ CallKrakenCreatePair
  \/ CallMexcCreatePair
  \/ CallGetAPIKey
  \/ CallGetAPISecret

SpecUnit == InitUnit /\ [][NextUnit]_vars

\* ------------------------------------------- shouldUseTestMode on its own
UseTestModeValues ==
  {Undefined, EmptyString, S_true, S_TRUE, S_false, S_False, S_yes, S_no,
   S_one, S_zero, S_on}

NodeEnvValues ==
  {Undefined, EmptyString, S_production, S_Production, S_staging, S_test}

\* every value of USE_TEST_MODE and NODE_ENV in process.env
InitMode ==
  /\ InitState
  /\ ticker = S_BTC
  /\ env \in [USE_TEST_MODE : UseTestModeValues, NODE_ENV : NodeEnvValues]
  /\ config = LoadConfig(DeployedCredentials, env)
  /\ callLimit = 0

\* a call of shouldUseTestMode()
CallShouldUseTestMode ==
  /\ mode' = IF TestMode THEN "test" ELSE "live"
  /\ UNCHANGED <<now, env, config, instanceCount, globalLastNonce, initialized,
                 mexcLastNonce, timeSyncer, calls, started, callLimit, issued,
                 transport, logs, syncer, lastInit, lastRead, ticker, lastPair,
                 signed, provided,
                 readings>>

NextMode == CallShouldUseTestMode

SpecMode == InitMode /\ [][NextMode]_vars

\* ------------------------------------------ ExchangeTimeSyncer on its own
MaxServerTime == 3

InitClock ==
  /\ InitState
  /\ ticker = S_BTC
  /\ env = [USE_TEST_MODE |-> S_true, NODE_ENV |-> S_test]
  /\ config = LoadConfig(DeployedCredentials, env)
  /\ callLimit = 0

\* syncer.initFromServer(serverTime)
SyncerInitFromServer ==
  /\ \E serverTime \in 0..MaxServerTime :
       /\ syncer' = [cachedTimeOffset |-> InitFromServer(serverTime, now)]
       /\ lastInit' = <<[serverTime |-> serverTime, at |-> now]>>
  /\ UNCHANGED <<now, env, config, instanceCount, globalLastNonce, initialized,
                 mexcLastNonce, timeSyncer, calls, started, callLimit, issued,
                 transport, logs, mode, lastRead, ticker, lastPair, signed,
                 provided,
                 readings>>

\* syncer.now(), syncer.getSynchronizedTimestamp() and
\* syncer.getTimestampString(), one after the other in one tick
SyncerRead ==
  /\ lastRead' = <<[at |-> now, init |-> lastInit,
                    now |-> SyncerNow(syncer.cachedTimeOffset, now),
                    synchronized |->
                      GetSynchronizedTimestamp(syncer.cachedTimeOffset, now),
                    text |-> GetTimestampString(syncer.cachedTimeOffset, now)]>>
  /\ UNCHANGED <<now, env, config, instanceCount, globalLastNonce, initialized,
                 mexcLastNonce, timeSyncer, calls, started, callLimit, issued,
                 transport, logs, mode, syncer, lastInit, ticker, lastPair,
                 signed, provided,
                 readings>>

NextClock ==
  \/ SetClock
  \/ SyncerInitFromServer
  \/ SyncerRead

SpecClock == InitClock /\ [][NextClock]_vars

\* ================================================================== claims
KrakenCalls == {c \in CallIds : calls[c].exch = "kraken"}

\* the Kraken requests handed to the transport, as positions of the history
KrakenRequests == {k \in DOMAIN transport : transport[k].exch = "kraken"}

\* the nonce field of a request body, as a number
BodyNonce(req) == StringToNumber(NonceOf(req.body))

\* C1: every nonce generateUniqueNonce returns is strictly greater than every
\* nonce it returned before, whatever the wall clock did between the calls;
\* no value is issued twice.
C1_NonceStrictlyIncreasing ==
  \A i, j \in DOMAIN issued : i < j => issued[i].nonce < issued[j].nonce

\* C1 witness: two nonces were issued and the later one is ahead of the
\* clock, so the clock did not advance past the counter between the calls
C1_Witness ==
  /\ Len(issued) >= 2
  /\ issued[Len(issued)].nonce > now
  /\ issued[Len(issued)].nonce = issued[Len(issued) - 1].nonce + 1

\* C2: under any interleaving of concurrent Kraken fetchBalance and
\* createMarketSellOrder calls, no two calls hold the same nonce, a call that
\* took its nonce later holds a greater one, and the requests in flight carry
\* nonces that increase in the order the requests were made.
C2_AtomicIssuance ==
  /\ \A c1, c2 \in KrakenCalls : c1 < c2 => calls[c1].nonce < calls[c2].nonce
  /\ \A k1, k2 \in KrakenRequests :
       k1 < k2 => BodyNonce(transport[k1]) < BodyNonce(transport[k2])
  /\ \A k \in KrakenRequests : BodyNonce(transport[k]) = calls[transport[k].call].nonce

\* C2 witness: a fetchBalance and a createMarketSellOrder are in flight at
\* the same time, both suspended at their network await
C2_Witness ==
  \E c1, c2 \in KrakenCalls :
    /\ calls[c1].op = "fetchBalance" /\ calls[c1].pc = "awaitHttp"
    /\ calls[c2].op = "createMarketSellOrder" /\ calls[c2].pc = "awaitHttp"
    /\ c2 < c1

\* C3: nonces issued through different KrakenApiService instances come from
\* one counter: in issuance order they are strictly increasing across the
\* instances.
C3_InstancesShareCounter ==
  \A i, j \in DOMAIN issued :
    (i < j /\ issued[i].inst # issued[j].inst) => issued[i].nonce < issued[j].nonce

\* C3 witness: two instances exist and each has issued a nonce, the first
\* instance before the second
C3_Witness ==
  /\ instanceCount >= 2
  /\ \E i, j \in DOMAIN issued :
       i < j /\ issued[i].inst = 1 /\ issued[j].inst = 2

C5_OnlyExplicitFalseGoesLive ==
  mode = "live" =>
    /\ Truthy(env.USE_TEST_MODE)
    /\ ToLowerCase(env.USE_TEST_MODE) = S_false
    /\ env.NODE_ENV = S_production

\* the order requests handed to the transport
OrderRequests(exchange) ==
  {k \in DOMAIN transport :
     /\ transport[k].exch = exchange
     /\ calls[transport[k].call].op = "createMarketSellOrder"
     /\ transport[k].method = "POST"}

HasValidateTrue(body) ==
  \E i \in DOMAIN body : body[i].k = "validate" /\ body[i].v = <<"t", "r", "u", "e">>

\* C6: an order request is a live one only in live mode: the Kraken order
\* body carries validate=true exactly when shouldUseTestMode is true, and the
\* MEXC order goes to /api/v3/order/test exactly when shouldUseTestMode is
\* true and to /api/v3/order otherwise.
C6_LiveOrderOnlyInLiveMode ==
  /\ \A k \in OrderRequests("kraken") :
       /\ transport[k].path = "/0/private/AddOrder"
       /\ HasValidateTrue(transport[k].body) <=> TestMode
  /\ \A k \in OrderRequests("mexc") :
       /\ transport[k].path = "/api/v3/order/test" <=> TestMode
       /\ transport[k].path = "/api/v3/order" <=> ~TestMode

\* C6 witness: a live MEXC order was sent under a live configuration
C6_Witness ==
  /\ ~TestMode
  /\ \E k \in OrderRequests("mexc") : transport[k].path = "/api/v3/order"

\* the requests a call handed to the transport
RequestsOf(c) == {k \in DOMAIN transport : transport[k].call = c}

\* C7: on both adapters, a fetchBalance whose API key is the empty string
\* rejects with the 'Missing API credentials' error and hands nothing to the
\* transport: no GET (the server-time fetch included) and no POST.
C7_NoRequestWithoutCredentials ==
  \A c \in CallIds :
    (/\ calls[c].op = "fetchBalance"
     /\ config.source = "injected" /\ config.key = EmptyString) =>
      /\ RequestsOf(c) = {}
      /\ calls[c].pc = "done"
           => /\ calls[c].result.state = "rejected"
              /\ Includes(calls[c].result.message, "Missing API credentials")

\* the log entries the order call c caused
OrderLogs(c) == {k \in DOMAIN logs : logs[k].call = c}

\* C8: when the exchange answers an order request with a 2xx response whose
\* body carries a non-empty error list, createMarketSellOrder rejects with an
\* error that keeps the listed text; the order is not logged as placed.
C8_OrderErrorsReject ==
  \A c \in CallIds :
    (/\ calls[c].op = "createMarketSellOrder"
     /\ calls[c].pc = "done"
     /\ calls[c].resp # <<>>
     /\ calls[c].resp[1].ok
     /\ Len(calls[c].resp[1].error) > 0) =>
      /\ calls[c].result.state = "rejected"
      /\ \A i \in DOMAIN calls[c].resp[1].error :
           Includes(calls[c].result.message, calls[c].resp[1].error[i])
      /\ \A k \in OrderLogs(c) : logs[k].kind # "log"

\* C9: when Kraken answers the balance request with a non-empty error list,
\* fetchBalance rejects with 'Kraken API error: ' followed by the errors
\* joined by ', ': not the generic error, not a balance.
C9_KrakenBalanceErrorSurfaced ==
  \A c \in KrakenCalls :
    (/\ calls[c].op = "fetchBalance"
     /\ calls[c].pc = "done"
     /\ calls[c].resp # <<>>
     /\ calls[c].resp[1].ok
     /\ Len(calls[c].resp[1].error) > 0) =>
      LET errors == calls[c].resp[1].error
          msg == IF calls[c].result.state = "rejected"
                 THEN calls[c].result.message ELSE <<>>
      IN /\ calls[c].result.state = "rejected"
         /\ Len(msg) = 2 * Len(errors) + 1
         /\ msg[1] = "Kraken API error:" /\ msg[2] = " "
         /\ \A i \in DOMAIN errors : msg[2 * i + 1] = errors[i]
         /\ \A i \in 1..(Len(errors) - 1) : msg[2 * i + 2] = ", "

\* C9 witness: a Kraken fetchBalance ended on an answer listing two errors
C9_Witness ==
  \E c \in KrakenCalls :
    /\ calls[c].op = "fetchBalance" /\ calls[c].pc = "done"
    /\ calls[c].resp # <<>> /\ calls[c].resp[1].ok
    /\ Len(calls[c].resp[1].error) = 2

\* C10: every read of the syncer (now, getSynchronizedTimestamp, the number
\* getTimestampString encodes) is the local clock plus the offset, the offset
\* being 0 before any initFromServer and s - L after the latest
\* initFromServer(s) made at local time L: a read at L + d gives s + d.
C10_ReadIsLocalPlusOffset ==
  /\ syncer.cachedTimeOffset =
       (IF lastInit = <<>> THEN 0 ELSE lastInit[1].serverTime - lastInit[1].at)
  /\ lastRead # <<>> =>
       LET r == lastRead[1]
           expected == IF r.init = <<>> THEN r.at
                       ELSE r.init[1].serverTime + (r.at - r.init[1].at)
       IN /\ r.now = expected
          /\ r.synchronized = expected
          /\ StringToNumber(r.text) = expected
          /\ \A i \in DOMAIN r.text : IsDigit(r.text[i]) \/ (i = 1 /\ r.text[i] = "-")

\* C10 witness: a read made after a re-sync, at a local time other than the
\* one of the latest initFromServer, under a non-zero offset
C10_Witness ==
  /\ lastRead # <<>>
  /\ lastRead[1].init # <<>>
  /\ lastRead[1].at # lastRead[1].init[1].at
  /\ lastRead[1].init[1].serverTime # lastRead[1].init[1].at
  /\ lastRead[1].now = lastRead[1].init[1].serverTime + 1

\* the calls made on the MEXC instance m
MexcCallsOn(m) == {c \in CallIds : calls[c].exch = "mexc" /\ calls[c].inst = m}

\* the server-time requests the MEXC instance m handed to the transport
TimeRequests(m) ==
  {k \in DOMAIN transport :
     /\ transport[k].exch = "mexc"
     /\ transport[k].path = "/api/v3/time"
     /\ transport[k].call \in MexcCallsOn(m)}

\* C11: one adapter instance fetches the exchange's server time lazily, by
\* its first call that needs a synchronized timestamp and before any other
\* request of the instance, and at most once whatever later or concurrent
\* calls of getTimeSyncer do.
C11_ServerTimeFetchedOnce ==
  \A m \in MexcIds :
    /\ Cardinality(TimeRequests(m)) <= 1
    /\ (TimeRequests(m) = {}) <=> (MexcCallsOn(m) = {})
    /\ \A k \in TimeRequests(m) :
         /\ \A c \in MexcCallsOn(m) : transport[k].call <= c
         /\ \A k2 \in DOMAIN transport :
              transport[k2].call \in MexcCallsOn(m) => k <= k2

\* C11 witness: a second call entered getTimeSyncer while the first was
\* still waiting for the server time, and both calls went on to the end
C11_Witness ==
  \E m \in MexcIds :
    /\ Cardinality(MexcCallsOn(m)) >= 2
    /\ \A c \in MexcCallsOn(m) : calls[c].pc = "done"
    /\ \E c1, c2 \in MexcCallsOn(m) :
         /\ c1 < c2
         /\ \E k1, k2 \in DOMAIN transport :
              /\ transport[k1].call = c1 /\ transport[k1].path = "/api/v3/account"
              /\ transport[k2].call = c2 /\ transport[k2].path = "/api/v3/account"
              /\ k2 < k1
    /\ Cardinality(TimeRequests(m)) = 1

\* C12: each nonce issuance returns max(Date.now(), lastIssued + 1) and
\* stores it as lastIssued: the clock reading when the clock is beyond
\* lastIssued, and lastIssued + 1 when it is not.
C12_NonceIsClockOrSuccessor ==
  [][Len(issued') = Len(issued) + 1 =>
       LET nonce == issued'[Len(issued')].nonce IN
       /\ now > globalLastNonce => nonce = now
       /\ now <= globalLastNonce => nonce = globalLastNonce + 1
       /\ globalLastNonce' = nonce]_vars

\* C12 witness: three issuances and no signing call; the second one returned
\* the clock reading, which had moved more than one past the counter, and the
\* third one, in the same millisecond, the counter plus one
C12_Witness ==
  /\ signed = <<>>
  /\ Len(issued) = 3
  /\ issued[2].nonce > issued[1].nonce + 1
  /\ issued[2].nonce = now
  /\ issued[3].nonce = issued[2].nonce + 1

\* the direct signing calls made with the same arguments
SameArguments(a, b) ==
  /\ a.signer = b.signer /\ a.path = b.path /\ a.data = b.data
  /\ a.secret = b.secret

\* C16: both signers are pure: two calls with the same arguments return the
\* same signature whatever the clock and the nonce counter did in between,
\* and no signing call changes the nonce counter.
C16_SignersPure ==
  /\ \A i, j \in DOMAIN signed :
       SameArguments(signed[i], signed[j]) =>
         signed[i].signature = signed[j].signature
  /\ \A i \in DOMAIN signed : signed[i].counterAfter = signed[i].counterBefore

\* the fetchBalance calls that ended on a successful answer without errors
BalanceAnswered ==
  {c \in CallIds :
     /\ calls[c].op = "fetchBalance" /\ calls[c].pc = "done"
     /\ calls[c].resp # <<>> /\ calls[c].resp[1].ok
     /\ calls[c].exch = "kraken" => calls[c].resp[1].error = <<>>}

\* the amount the answer of call c lists for the asset under the code the
\* exchange uses for it, <<>> when the answer omits the asset
ListedAmount(c) ==
  IF calls[c].exch = "kraken"
  THEN LET mine == {r \in calls[c].resp[1].result : r.key = MapAssetToKraken(ticker)}
       IN IF mine = {} THEN <<>> ELSE <<(CHOOSE r \in mine : TRUE).amount>>
  ELSE LET mine == {k \in DOMAIN calls[c].resp[1].balances :
                      calls[c].resp[1].balances[k].asset = ToUpperCase(ticker)}
       IN IF mine = {} THEN <<>>
          ELSE <<calls[c].resp[1].balances[CHOOSE k \in mine : TRUE].free>>

\* C13: on both adapters fetchBalance resolves to 0, and does not reject,
\* when the successful answer omits the asset and when it lists the asset
\* with a zero free balance.
C13_ZeroBalanceResolves ==
  \A c \in BalanceAnswered :
    (ListedAmount(c) = <<>> \/ ListedAmount(c) = << <<"0">> >>) =>
      calls[c].result = Resolved(0)

\* C13 witness: a MEXC answer that lists other assets only, for an asset
\* named in lower case
C13_Witness ==
  \E c \in BalanceAnswered :
    /\ calls[c].exch = "mexc"
    /\ ticker = S_doge
    /\ ListedAmount(c) = <<>>
    /\ Len(calls[c].resp[1].balances) = 1

\* C14: Kraken fetchBalance resolves to the amount the answer lists under
\* the asset's native Kraken code, the image of the ticker under the asset
\* map, whenever the successful answer has that key, for every ticker.
C14_KrakenBalanceUnderNativeCode ==
  \A c \in BalanceAnswered :
    (calls[c].exch = "kraken" /\ ListedAmount(c) # <<>>) =>
      calls[c].result = Resolved(StringToNumber(ListedAmount(c)[1]))

\* the ticker in upper case, and the same with BTC written XBT
XbtForm(name) == ReplaceFirst(ToUpperCase(name), S_BTC, <<"X", "B", "T">>)

\* the returned keys that contain the asset ticker or its XBT form
KeysNamingAsset(result) ==
  {k \in DOMAIN result :
     \/ StringIncludes(result[k].key, ToUpperCase(ticker))
     \/ StringIncludes(result[k].key, XbtForm(ticker))}

\* the entry the price is to be taken from: the one under the exact pair
\* key, or failing that the one under the first returned key naming the asset
PriceEntry(result, pair) ==
  IF \E k \in DOMAIN result : result[k].key = pair
  THEN <<result[CHOOSE k \in DOMAIN result : result[k].key = pair]>>
  ELSE IF KeysNamingAsset(result) # {}
  THEN <<result[CHOOSE k \in KeysNamingAsset(result) :
                  \A j \in KeysNamingAsset(result) : k <= j]>>
  ELSE <<>>

\* C18: Kraken fetchPrice resolves to the last-trade price under the exact
\* pair key, or failing that under the first returned key that contains the
\* asset ticker or its XBT form; it rejects with 'No price data found for
\* pair <pair>' exactly when a successful answer has no such key with a
\* last-trade price, and with 'Could not fetch price for <asset>' when the
\* transport fails.
C18_KrakenPriceFromMatchingKey ==
  \A c \in CallIds :
    (calls[c].op = "fetchPrice" /\ calls[c].pc = "done") =>
      LET resp == calls[c].resp[1]
          pair == KrakenCreatePair(ticker, S_USDT)
          entry == PriceEntry(resp.result, pair)
      IN IF ~resp.ok
         THEN calls[c].result =
                Rejected(<<"Could not fetch price", " for ">> \o ticker)
         ELSE IF entry # <<>> /\ entry[1].c # <<>>
         THEN calls[c].result = Resolved(StringToNumber(entry[1].c[1]))
         ELSE calls[c].result =
                Rejected(<<"No price data found", " for pair ">> \o pair)

\* the asset map of an adapter applied to a ticker: Kraken's five entries,
\* none for MEXC, and the upper-cased ticker when the map has no entry
MappedCode(adapter, name) ==
  LET upper == ToUpperCase(name) IN
  IF adapter = "kraken" /\ upper = <<"B", "T", "C">> THEN <<"X", "X", "B", "T">>
  ELSE IF adapter = "kraken" /\ upper = <<"E", "T", "H">> THEN <<"X", "E", "T", "H">>
  ELSE IF adapter = "kraken" /\ upper = <<"U", "S", "D">> THEN <<"Z", "U", "S", "D">>
  ELSE IF adapter = "kraken" /\ upper = <<"X", "L", "M">> THEN <<"X", "X", "L", "M">>
  ELSE IF adapter = "kraken" /\ upper = <<"X", "R", "P">> THEN <<"X", "X", "R", "P">>
  ELSE upper

\* C15: createPair returns the mapped code of the asset followed by the
\* mapped code of the target on both adapters, a ticker without a map entry
\* passing through in upper case whatever the case it was given in.
C15_CreatePairMapsBothLegs ==
  lastPair # <<>> =>
    lastPair[1].pair = MappedCode(lastPair[1].adapter, lastPair[1].name)
                         \o MappedCode(lastPair[1].adapter, lastPair[1].to)

\* C20: getAPIKey / getAPISecret throw 'API key / secret not found for
\* exchange: <exchange>' when the configuration holds no value or the empty
\* string for the exchange, return the configured string otherwise, and so
\* never return an empty credential.
C20_ProviderNeverReturnsEmpty ==
  provided # <<>> =>
    LET p == provided[1]
        stored == p.store[p.exchange]
        what == IF p.op = "getAPIKey" THEN "API key not found for exchange: "
                ELSE "API secret not found for exchange: "
    IN IF stored = Undefined \/ stored = EmptyString
       THEN p.outcome.threw /\ p.outcome.message = <<what, p.exchange>>
       ELSE ~p.outcome.threw /\ p.outcome.value = stored /\ Len(p.outcome.value) > 0

\* C20 witness: getAPIKey was called for an exchange whose configured key is
\* the empty string while the other exchange has a key
C20_Witness ==
  /\ provided # <<>>
  /\ provided[1].op = "getAPIKey"
  /\ provided[1].store[provided[1].exchange] = EmptyString
  /\ \E other \in Exchanges : provided[1].store[other] = S_key
  /\ provided[1].outcome.threw

\* the requests that carry an API key header and a signature
SignedRequests == {k \in DOMAIN transport : transport[k].apiKey # Undefined}

Base64Alphabet ==
  {"A", "B", "C", "D", "E", "F", "G", "H", "I", "J", "K", "L", "M", "N", "O",
   "P", "Q", "R", "S", "T", "U", "V", "W", "X", "Y", "Z", "a", "b", "c", "d",
   "e", "f", "g", "h", "i", "j", "k", "l", "m", "n", "o", "p", "q", "r", "s",
   "t", "u", "v", "w", "x", "y", "z", "0", "1", "2", "3", "4", "5", "6", "7",
   "8", "9", "+", "/"}

\* a well-formed base64 text without padding
IsBase64(str) ==
  /\ Len(str) % 4 = 0
  /\ \A i \in DOMAIN str : str[i] \in Base64Alphabet

\* C17: signing fails instead of returning a signature when the secret is
\* empty or malformed for the exchange's encoding (not base64, for Kraken):
\* no request handed to the transport carries a signature computed from
\* such a secret.
C17_NoSignatureFromBadSecret ==
  \A k \in SignedRequests :
    /\ Len(transport[k].signature.key) > 0
    /\ transport[k].exch = "kraken" => IsBase64(transport[k].signature.key)

\* C19: createMarketSellOrder called when the API key or the API secret is
\* absent or empty rejects with the 'Missing API credentials' error and
\* hands nothing to the transport: no order request and no other request.
C19_NoOrderWithoutCredentials ==
  \A c \in CallIds :
    (/\ calls[c].op = "createMarketSellOrder"
     /\ ~Truthy(config.key) \/ ~Truthy(config.secret)) =>
      /\ RequestsOf(c) = {}
      /\ calls[c].pc = "done"
           => /\ calls[c].result.state = "rejected"
              /\ Includes(calls[c].result.message, "Missing API credentials")

\* C21: the shared Kraken counter is initialised exactly once, by the first
\* constructor, to the wall-clock time of that moment; later constructors
\* leave it unchanged, no step lowers it, and every nonce issued is strictly
\* greater than the initial value.
C21_CounterSeededOnce ==
  /\ [](/\ initialized <=> instanceCount >= 1
        /\ initialized <=> readings.init # <<>>
        /\ initialized =>
             /\ globalLastNonce >= readings.init[1]
             /\ issued = <<>> => globalLastNonce = readings.init[1]
             /\ \A i \in DOMAIN issued : issued[i].nonce > readings.init[1])
  /\ [][/\ ~initialized => (initialized' => globalLastNonce' = now)
        /\ initialized =>
             /\ initialized'
             /\ readings'.init = readings.init
             /\ globalLastNonce' >= globalLastNonce
             /\ instanceCount' # instanceCount => globalLastNonce' = globalLastNonce]_vars

\* C21 witness: the counter was initialised at clock 1, a second instance
\* was constructed, each instance issued a nonce, and the clock now reads
\* less than the initial value
C21_Witness ==
  /\ instanceCount = 2
  /\ readings.init = <<1>>
  /\ Len(issued) = 2
  /\ issued[1].inst = 1 /\ issued[2].inst = 2
  /\ globalLastNonce = 3
  /\ now = 0

\* the Kraken calls that took a nonce
NonceCalls ==
  {c \in KrakenCalls : calls[c].op \in {"fetchBalance", "createMarketSellOrder"}}

\* the position in the transport history of the request of call c
RequestOf(c) == CHOOSE k \in DOMAIN transport : transport[k].call = c

\* C22: Kraken requests reach the transport in the order their nonces were
\* issued: a call that holds a nonce and is suspended has already handed its
\* request over (nothing suspends between the issuance and the transport
\* call), and a request with a larger nonce is never handed over before a
\* request with a smaller one.
C22_SubmittedInNonceOrder ==
  /\ \A c \in NonceCalls :
       calls[c].pc = "awaitHttp" => Cardinality(RequestsOf(c)) = 1
  /\ \A i, j \in DOMAIN issued :
       (/\ issued[i].nonce < issued[j].nonce
        /\ RequestsOf(issued[i].call) # {} /\ RequestsOf(issued[j].call) # {}) =>
         RequestOf(issued[i].call) < RequestOf(issued[j].call)
  /\ Len(transport) = Len(issued)
  /\ \A k \in DOMAIN transport :
       /\ transport[k].call = issued[k].call
       /\ BodyNonce(transport[k]) = issued[k].nonce

\* C22 witness: two requests are in flight, made through two instances
\* while the clock stepped back between them
C22_Witness ==
  /\ Len(transport) = 2
  /\ calls[1].pc = "awaitHttp" /\ calls[2].pc = "awaitHttp"
  /\ calls[1].inst # calls[2].inst
  /\ BodyNonce(transport[2]) > now + 1

\* C23: whenever getTimeSyncer has resolved for a call, the syncer it
\* returned has completed initFromServer with a fetched server time: no
\* call goes on to produce a timestamp from a syncer that was never
\* initialised, be it because another call's server-time fetch is still
\* pending or because an earlier fetch failed.
C23_SyncerInitialisedBeforeUse ==
  \A c \in CallIds :
    (calls[c].exch = "mexc" /\ calls[c].pc = "syncerReady") =>
      timeSyncer[calls[c].inst].inited

\* C24: only initFromServer changes the clock offset: the reads leave it
\* unchanged, it is constant between two re-syncs, and of two successive
\* reads made under the same sync the later is not smaller when the local
\* clock is not.
C24_OffsetChangedOnlyBySync ==
  [][/\ lastInit' = lastInit => syncer' = syncer
     /\ lastRead' # lastRead => syncer' = syncer
     /\ (/\ lastRead # <<>> /\ lastRead' # lastRead
         /\ lastRead'[1].init = lastRead[1].init
         /\ lastRead'[1].at >= lastRead[1].at) =>
          /\ lastRead'[1].now >= lastRead[1].now
          /\ lastRead'[1].synchronized >= lastRead[1].synchronized
          /\ StringToNumber(lastRead'[1].text) >= StringToNumber(lastRead[1].text)]_vars

\* C24 witness: a read was made under a negative offset and the local clock
\* has advanced since without a re-sync, so the next read is its successor
C24_Witness ==
  /\ lastRead # <<>>
  /\ lastInit # <<>>
  /\ lastRead[1].init = lastInit
  /\ syncer.cachedTimeOffset < 0
  /\ now > lastRead[1].at

\* C25: in every Kraken request that is sent, the nonce hashed into the
\* API-Sign signature is the nonce field of the post body sent with it, the
\* body hashed is that body, and the nonce is the one the shared generator
\* issued for that call.
C25_SignedNonceIsBodyNonce ==
  \A k \in KrakenRequests :
    LET req == transport[k] IN
    /\ HasNonce(req.body)
    /\ req.signature.sha256.nonce = NonceOf(req.body)
    /\ req.signature.sha256.body = req.body
    /\ \E i \in DOMAIN issued :
         /\ issued[i].call = req.call
         /\ NumberToString(issued[i].nonce) = req.signature.sha256.nonce
         /\ \A j \in DOMAIN issued : issued[j].call = req.call => j = i

\* C25 witness: an order and a balance request were sent, the order with a
\* nonce that is ahead of the clock
C25_Witness ==
  \E k1, k2 \in KrakenRequests :
    /\ transport[k1].path = "/0/private/AddOrder"
    /\ transport[k2].path = "/0/private/Balance"
    /\ k2 < k1
    /\ StringToNumber(transport[k1].signature.sha256.nonce) > now

\* the signed MEXC requests handed to the transport
MexcSignedRequests ==
  {k \in DOMAIN transport :
     transport[k].exch = "mexc" /\ transport[k].path # "/api/v3/time"}

\* the names of the fields of a query string, in their order
FieldNames(query) == [i \in DOMAIN query |-> query[i].k]

\* C26: in every signed MEXC request the string that was signed is the
\* query string of the URL sent, field for field: timestamp alone for the
\* balance, symbol, side, type, quantity, timestamp in that order for an
\* order, the timestamp being the one the call took.
C26_SignedStringIsQuerySent ==
  \A k \in MexcSignedRequests :
    LET req == transport[k]
        c == req.call
    IN /\ req.signature.message = req.query
       /\ req.query[Len(req.query)] =
            Field("timestamp", NumberToString(calls[c].nonce))
       /\ calls[c].op = "fetchBalance" => FieldNames(req.query) = <<"timestamp">>
       /\ calls[c].op = "createMarketSellOrder" =>
            /\ FieldNames(req.query) =
                 <<"symbol", "side", "type", "quantity", "timestamp">>
            /\ req.query[1].v = ticker \o S_USDT
            /\ req.query[4].v = <<"1">>

\* C26 witness: an order and a balance request of one instance were sent
\* with different timestamps
C26_Witness ==
  \E k1, k2 \in MexcSignedRequests :
    /\ calls[transport[k1].call].op = "createMarketSellOrder"
    /\ calls[transport[k2].call].op = "fetchBalance"
    /\ transport[k1].query[5].v # transport[k2].query[1].v

\* the calls of instance m that have taken their timestamp
MexcStamped(m) == {c \in MexcCallsOn(m) : calls[c].nonce # 0}

\* C27: on one MEXC instance every timestamp taken is larger than all the
\* timestamps taken before it, whatever the synchronized clock reads, and
\* it is the synchronized clock's reading when that is ahead of the last
\* timestamp.
C27_MexcTimestampsIncrease ==
  /\ [](\A m \in MexcIds :
         /\ \A c \in MexcStamped(m) : calls[c].nonce <= mexcLastNonce[m]
         /\ \A c, d \in MexcStamped(m) : c # d => calls[c].nonce # calls[d].nonce)
  /\ [][\A m \in MexcIds :
          LET synced == SyncerNow(timeSyncer[m].offset, now) IN
          /\ mexcLastNonce'[m] # mexcLastNonce[m] =>
                /\ mexcLastNonce'[m] > mexcLastNonce[m]
                /\ synced > mexcLastNonce[m] => mexcLastNonce'[m] = synced
          /\ \A c \in MexcCallsOn(m) :
                (c \in DOMAIN calls' /\ calls'[c].nonce # calls[c].nonce) =>
                  /\ calls[c].nonce = 0
                  /\ calls'[c].nonce = mexcLastNonce'[m]
                  /\ calls'[c].nonce > mexcLastNonce[m]]_vars

\* C27 witness: an instance took two timestamps, the second one more than
\* the first, while its synchronized clock reads less than the second
C27_Witness ==
  \E m \in MexcIds : \E c, d \in MexcStamped(m) :
    /\ calls[d].nonce = calls[c].nonce + 1
    /\ mexcLastNonce[m] = calls[d].nonce
    /\ SyncerNow(timeSyncer[m].offset, now) < calls[c].nonce

\* C28: a nonce returned by generateUniqueNonce is at least the clock
\* reading of its call, the shared counter never decreases whatever the
\* clock does, and after k issuances the counter is at most k above the
\* largest clock value read so far, the initialisation reading included.
C28_NonceBoundedByClockPlusCount ==
  /\ [](globalLastNonce <= readings.largest + Len(issued))
  /\ [][/\ globalLastNonce' >= globalLastNonce
        /\ Len(issued') > Len(issued) =>
             /\ issued'[Len(issued')].nonce >= now
             /\ issued'[Len(issued')].nonce = globalLastNonce'
             /\ readings'.largest >= now]_vars

\* C28 witness: two nonces were issued with the clock behind the largest
\* reading, and the counter is exactly two above that reading
C28_Witness ==
  /\ Len(issued) = 2
  /\ readings.init # <<>>
  /\ now < readings.largest
  /\ globalLastNonce = readings.largest + 2

\* C29: a step that issues a Kraken nonce computes it from the shared
\* counter and the clock and leaves every MEXC instance's last timestamp
\* as it was; a step that takes a MEXC timestamp computes it from that
\* instance's last timestamp and its synchronized clock and leaves the
\* Kraken counter and its issued nonces as they were.
C29_IndependentNonceSpaces ==
  [][/\ globalLastNonce' # globalLastNonce => mexcLastNonce' = mexcLastNonce
     /\ Len(issued') > Len(issued) =>
          /\ mexcLastNonce' = mexcLastNonce
          /\ issued'[Len(issued')].nonce = GenerateUniqueNonce(globalLastNonce, now)
     /\ \A m \in MexcIds :
          mexcLastNonce'[m] # mexcLastNonce[m] =>
            /\ globalLastNonce' = globalLastNonce
            /\ issued' = issued
            /\ mexcLastNonce'[m] =
                 EnsureUniqueNonce(mexcLastNonce[m],
                                   SyncerNow(timeSyncer[m].offset, now))]_vars

\* C29 witness: both adapters have issued, the Kraken counter and the MEXC
\* last timestamp standing at different values
C29_Witness ==
  \E m \in MexcIds :
    /\ Len(issued) >= 1
    /\ mexcLastNonce[m] > 0
    /\ mexcLastNonce[m] # globalLastNonce
    /\ \E c \in DOMAIN calls : calls[c].exch = "mexc" /\ calls[c].nonce = mexcLastNonce[m]

\* the signings that took the fallback: signKrakenRequest on a post body
\* without a nonce field
FallbackSignings ==
  {j \in DOMAIN signed :
     signed[j].signer = "signKrakenRequest" /\ ~HasNonce(signed[j].data)}

\* the nonce a fallback signing put under its signature
FallbackNonce(j) == StringToNumber(signed[j].signature.sha256.nonce)

\* C30: a fallback signing moves the shared counter to max(clock, last + 1)
\* and signs that value, the counter stays at or above every nonce handed
\* out on either path, and each value generateUniqueNonce returns is above
\* the counter it found, hence above every earlier generated nonce and
\* every earlier fallback nonce.
C30_GeneratedAboveFallback ==
  /\ [](/\ \A i \in DOMAIN issued : issued[i].nonce <= globalLastNonce
        /\ \A j \in FallbackSignings :
             /\ FallbackNonce(j) = signed[j].counterAfter
             /\ signed[j].counterAfter = Max(FallbackNonce(j), signed[j].counterBefore + 1)
             /\ FallbackNonce(j) <= globalLastNonce
        /\ \A i, k \in DOMAIN issued : i < k => issued[i].nonce < issued[k].nonce)
  /\ [][/\ (Len(issued') > Len(issued)) =>
             (issued'[Len(issued')].nonce > globalLastNonce)
        /\ (Len(signed') > Len(signed)) =>
             LET entry == signed'[Len(signed')] IN
             (entry.signer = "signKrakenRequest" /\ ~HasNonce(entry.data)) =>
               (/\ globalLastNonce' = Max(now, globalLastNonce + 1)
                /\ entry.counterAfter = globalLastNonce')]_vars

\* C30 witness: a nonce was generated, a fallback signing then took the
\* next value with the clock behind, and the nonce generated after it is
\* one above the fallback nonce
C30_Witness ==
  \E j \in FallbackSignings :
    /\ Len(issued) = 2
    /\ issued[1].nonce = signed[j].counterBefore
    /\ FallbackNonce(j) = issued[1].nonce + 1
    /\ issued[2].nonce = FallbackNonce(j) + 1
    /\ now < issued[1].nonce
====
